---- MODULE Spec2Model ----
(***************************************************************************)
(* A model of concat-md's concatenation engine (src/src/index.ts).         *)
(*                                                                         *)
(* Text is modelled as a sequence of symbols.  A symbol is a one-character *)
(* string; the two TOC marker lines are atomic symbols of their own.  A    *)
(* file body is a sequence of tokens: a character token, or a link token   *)
(* that stands for one markdown link "[text](target)" and carries the      *)
(* target as a string.  Paths are POSIX paths (sep = "/").                 *)
(***************************************************************************)
EXTENDS Integers, Sequences, FiniteSets, TLC

\* ------------------------------------------------------------------------
\* Bounds of the model.
\* ------------------------------------------------------------------------
\* Longest file list handed to concatFiles.
MaxFiles == 2
\* Longest body enumerated for the heading level rewriter.
MaxBodyLen == 4
\* Largest heading shift enumerated for the heading level rewriter.
MaxShift == 2

\* ------------------------------------------------------------------------
\* Strings.
\* ------------------------------------------------------------------------
Lower == <<"a","b","c","d","e","f","g","h","i","j","k","l","m",
           "n","o","p","q","r","s","t","u","v","w","x","y","z">>
Upper == <<"A","B","C","D","E","F","G","H","I","J","K","L","M",
           "N","O","P","Q","R","S","T","U","V","W","X","Y","Z">>
Digits == {"0","1","2","3","4","5","6","7","8","9"}

Range(s) == {s[n] : n \in DOMAIN s}

IsLower(c) == c \in Range(Lower)
IsUpper(c) == c \in Range(Upper)
IsDigit(c) == c \in Digits
\* \w of a JavaScript regular expression.
IsWord(c) == IsLower(c) \/ IsUpper(c) \/ IsDigit(c) \/ c = "_"
\* \s of a JavaScript regular expression (the members the model can write).
IsSpace(c) == c \in {" ", "\t", "\n", "\r"}

toLowerCaseChar(c) ==
  IF IsUpper(c) THEN Lower[CHOOSE n \in DOMAIN Upper : Upper[n] = c] ELSE c
toUpperCaseChar(c) ==
  IF IsLower(c) THEN Upper[CHOOSE n \in DOMAIN Lower : Lower[n] = c] ELSE c

toLowerCase(s) == [n \in DOMAIN s |-> toLowerCaseChar(s[n])]

\* s.slice(from) with a 0-based index, as String.prototype.slice.
Slice(s, from) == SubSeq(s, from + 1, Len(s))
\* s.slice(0, to) with a 0-based exclusive end.
SliceTo(s, to) == SubSeq(s, 1, to)

\* s.indexOf(c) for a one-symbol needle: 0-based, -1 when absent.
indexOf(s, c) ==
  IF \E n \in DOMAIN s : s[n] = c
  THEN (CHOOSE n \in DOMAIN s : s[n] = c /\ \A m \in 1..(n - 1) : s[m] # c) - 1
  ELSE -1

startsWith(s, p) == Len(s) >= Len(p) /\ SubSeq(s, 1, Len(p)) = p

\* s.includes(p)
includes(s, p) ==
  \E n \in 0..(Len(s) - Len(p)) : SubSeq(s, n + 1, n + Len(p)) = p

\* "c".repeat(n)
repeat(c, n) == [k \in 1..n |-> c]

\* s.trim()
trim(s) ==
  IF \A n \in DOMAIN s : IsSpace(s[n]) THEN <<>>
  ELSE LET a == CHOOSE n \in DOMAIN s :
                  ~IsSpace(s[n]) /\ \A m \in 1..(n - 1) : IsSpace(s[m])
           b == CHOOSE n \in DOMAIN s :
                  ~IsSpace(s[n]) /\ \A m \in (n + 1)..Len(s) : IsSpace(s[m])
       IN SubSeq(s, a, b)

\* s.split(c) for a one-symbol separator: never empty, "" splits to [""].
RECURSIVE split(_, _)
split(s, c) ==
  LET p == indexOf(s, c)
  IN IF p = -1 THEN <<s>>
     ELSE <<SliceTo(s, p)>> \o split(Slice(s, p + 1), c)

\* parts.join(j)
RECURSIVE ArrayJoin(_, _)
ArrayJoin(parts, j) ==
  IF parts = <<>> THEN <<>>
  ELSE IF Len(parts) = 1 THEN parts[1]
  ELSE parts[1] \o j \o ArrayJoin(Tail(parts), j)

\* ------------------------------------------------------------------------
\* Node's path module (POSIX flavour) as index.ts imports it.
\* ------------------------------------------------------------------------
sep == "/"
Dot == <<".">>
DotDot == <<".", ".">>

\* path.normalizeString: resolves "." and ".." segments.
RECURSIVE normalizeString(_, _, _)
normalizeString(segs, res, allowAboveRoot) ==
  IF segs = <<>> THEN res
  ELSE LET g == Head(segs)
           next ==
             IF g = <<>> \/ g = Dot THEN res
             ELSE IF g = DotDot
               THEN IF res # <<>> /\ res[Len(res)] # DotDot
                      THEN SubSeq(res, 1, Len(res) - 1)
                    ELSE IF allowAboveRoot THEN Append(res, g) ELSE res
             ELSE Append(res, g)
       IN normalizeString(Tail(segs), next, allowAboveRoot)

\* path.normalize
normalize(path) ==
  IF path = <<>> THEN Dot
  ELSE LET isAbsolute == path[1] = sep
           trailingSeparator == path[Len(path)] = sep
           body == ArrayJoin(normalizeString(split(path, sep), <<>>, ~isAbsolute),
                             <<sep>>)
       IN IF body = <<>>
            THEN IF isAbsolute THEN <<sep>>
                 ELSE IF trailingSeparator THEN <<".", sep>> ELSE Dot
          ELSE (IF isAbsolute THEN <<sep>> ELSE <<>>) \o body
               \o (IF trailingSeparator THEN <<sep>> ELSE <<>>)

\* path.join(a, b): empty arguments are skipped.
join(a, b) ==
  IF a = <<>> /\ b = <<>> THEN Dot
  ELSE IF a = <<>> THEN normalize(b)
  ELSE IF b = <<>> THEN normalize(a)
  ELSE normalize(a \o <<sep>> \o b)

\* path.dirname
dirname(path) ==
  IF path = <<>> THEN Dot
  ELSE LET hasRoot == path[1] = sep
           \* 1-based positions of a separator that is not the first symbol
           \* and has a non-separator somewhere after it.
           ends == {n \in 2..Len(path) :
                      path[n] = sep /\ \E m \in (n + 1)..Len(path) : path[m] # sep}
       IN IF ends = {} THEN (IF hasRoot THEN <<sep>> ELSE Dot)
          ELSE LET e == CHOOSE n \in ends : \A m \in ends : m <= n
               IN IF hasRoot /\ e = 2 THEN <<sep, sep>> ELSE SubSeq(path, 1, e - 1)

\* The last component of a path, trailing separators dropped.
lastComponent(path) ==
  LET parts == SelectSeq(split(path, sep), LAMBDA g : g # <<>>)
  IN IF parts = <<>> THEN <<>> ELSE parts[Len(parts)]

\* path.extname
extname(path) ==
  LET base == lastComponent(path)
      dots == {n \in DOMAIN base : base[n] = "."}
  IN IF dots = {} \/ base = DotDot THEN <<>>
     ELSE LET d == CHOOSE n \in dots : \A m \in dots : m <= n
          IN IF d = 1 THEN <<>> ELSE SubSeq(base, d, Len(base))

\* path.basename(path, ext)
basename(path, ext) ==
  LET base == lastComponent(path)
  IN IF /\ ext # <<>>
        /\ Len(base) > Len(ext)
        /\ SubSeq(base, Len(base) - Len(ext) + 1, Len(base)) = ext
       THEN SubSeq(base, 1, Len(base) - Len(ext))
     ELSE base

\* path.resolve of an absolute path: normalized, no trailing separator.
resolve(path) ==
  <<sep>> \o ArrayJoin(normalizeString(split(path, sep), <<>>, FALSE), <<sep>>)

\* Length of the longest common prefix of two component lists.
RECURSIVE commonPrefixLen(_, _)
commonPrefixLen(a, b) ==
  IF a = <<>> \/ b = <<>> \/ Head(a) # Head(b) THEN 0
  ELSE 1 + commonPrefixLen(Tail(a), Tail(b))

\* path.relative(from, to) of two absolute paths.
relative(from, to) ==
  LET f == normalizeString(split(from, sep), <<>>, FALSE)
      t == normalizeString(split(to, sep), <<>>, FALSE)
      n == commonPrefixLen(f, t)
  IN ArrayJoin([k \in 1..(Len(f) - n) |-> DotDot] \o SubSeq(t, n + 1, Len(t)),
               <<sep>>)

\* ------------------------------------------------------------------------
\* lodash.startcase, on ASCII text without apostrophes and ordinals.
\* ------------------------------------------------------------------------
IsAlnum(c) == IsLower(c) \/ IsUpper(c) \/ IsDigit(c)
IsLetter(c) == IsLower(c) \/ IsUpper(c)

\* Whether lodash's words() ends a word between s[n] and s[n+1], both
\* alphanumeric: lower|Upper, letter|digit, digit|letter, Upper|Upper lower.
wordBreak(s, n) ==
  \/ IsLower(s[n]) /\ IsUpper(s[n + 1])
  \/ IsLetter(s[n]) /\ IsDigit(s[n + 1])
  \/ IsDigit(s[n]) /\ IsLetter(s[n + 1])
  \/ IsUpper(s[n]) /\ IsUpper(s[n + 1]) /\ n + 2 <= Len(s) /\ IsLower(s[n + 2])

RECURSIVE wordsFrom(_, _, _)
wordsFrom(s, n, cur) ==
  LET flush == IF cur = <<>> THEN <<>> ELSE <<cur>>
  IN IF n > Len(s) THEN flush
     ELSE IF ~IsAlnum(s[n]) THEN flush \o wordsFrom(s, n + 1, <<>>)
     ELSE IF cur # <<>> /\ wordBreak(s, n - 1)
       THEN <<cur>> \o wordsFrom(s, n + 1, <<s[n]>>)
     ELSE wordsFrom(s, n + 1, Append(cur, s[n]))

words(s) == wordsFrom(s, 1, <<>>)

upperFirst(w) == IF w = <<>> THEN w ELSE <<toUpperCaseChar(w[1])>> \o Tail(w)

startCase(s) ==
  LET ws == words(s)
  IN ArrayJoin([k \in DOMAIN ws |-> upperFirst(ws[k])], <<" ">>)

\* ------------------------------------------------------------------------
\* gitHubLink (index.ts:18-27): the anchor slug of a title.
\* ------------------------------------------------------------------------
\* .trim().toLowerCase().replace(/[^\w\- ]+/g, "").replace(/\s/g, "-").replace(/-+$/, "")
gitHubLink(val) ==
  LET lowered == toLowerCase(trim(val))
      kept == SelectSeq(lowered, LAMBDA c : IsWord(c) \/ c \in {"-", " "})
      dashed == [n \in DOMAIN kept |-> IF IsSpace(kept[n]) THEN "-" ELSE kept[n]]
      ends == {n \in 0..Len(dashed) : \A m \in (n + 1)..Len(dashed) : dashed[m] = "-"}
  IN SubSeq(dashed, 1, CHOOSE n \in ends : \A m \in ends : n <= m)

\* ------------------------------------------------------------------------
\* Tokens of a file body.
\* ------------------------------------------------------------------------
\* A character (or an atomic marker line).
Ch(c) == [k |-> "ch", c |-> c, t |-> <<>>]
\* One markdown link "[text](t)" with target t.
Lk(t) == [k |-> "link", c |-> "", t |-> t]
\* A string as body text.
Txt(s) == [n \in DOMAIN s |-> Ch(s[n])]

\* The link targets of a body, in order.
LinksOf(body) ==
  LET ls == SelectSeq(body, LAMBDA tok : tok.k = "link")
  IN [n \in DOMAIN ls |-> ls[n].t]

\* What "^" of a multiline regular expression follows.
IsLineTerminator(tok) == tok.k = "ch" /\ tok.c \in {"\n", "\r"}

\* ------------------------------------------------------------------------
\* MarkDownConcatenator
\* ------------------------------------------------------------------------
\* The options as the constructor stores them (index.ts:113-141).  Unset
\* strings are empty: the code only tests them for truthiness.
constructor(d, options) ==
  [dir |-> d,
   title |-> options.title,
   toc |-> options.toc,
   tocLevel |-> options.tocLevel,
   decreaseTitleLevels |-> options.decreaseTitleLevels,
   startTitleLevelAt |-> options.startTitleLevelAt,
   joinString |-> IF options.joinString # <<>>
                    THEN <<"\n">> \o options.joinString \o <<"\n">>
                  ELSE <<"\n">>,
   titleKey |-> options.titleKey,
   dirNameAsTitle |-> options.dirNameAsTitle,
   fileNameAsTitle |-> options.fileNameAsTitle]

\* body.replace(/(^#+)/gm, `$1${"#".repeat(level)}`), from position n on;
\* inRun says that body[n-1] belongs to a run of "#" that starts a line.
RECURSIVE appendToLeadingRuns(_, _, _, _)
appendToLeadingRuns(body, n, inRun, extra) ==
  IF n > Len(body) THEN (IF inRun THEN extra ELSE <<>>)
  ELSE LET atStart == n = 1 \/ IsLineTerminator(body[n - 1])
           run == body[n] = Ch("#") /\ (atStart \/ inRun)
       IN (IF inRun /\ ~run THEN extra ELSE <<>>)
          \o <<body[n]>> \o appendToLeadingRuns(body, n + 1, run, extra)

\* body.replace(/(^#+)/gm, "#".repeat(level)): the run is lost.
RECURSIVE replaceLeadingRuns(_, _, _, _)
replaceLeadingRuns(body, n, inRun, extra) ==
  IF n > Len(body) THEN (IF inRun THEN extra ELSE <<>>)
  ELSE LET atStart == n = 1 \/ IsLineTerminator(body[n - 1])
           run == body[n] = Ch("#") /\ (atStart \/ inRun)
       IN (IF inRun /\ ~run THEN extra ELSE <<>>)
          \o (IF run THEN <<>> ELSE <<body[n]>>)
          \o replaceLeadingRuns(body, n + 1, run, extra)

decreaseTitleLevelsBy_NoGuard(self, body, level) ==
  IF level <= 0 THEN body
  ELSE appendToLeadingRuns(body, 1, FALSE, Txt(repeat("#", level)))

decreaseTitleLevelsBy_Replace(self, body, level) ==
  IF ~self.decreaseTitleLevels \/ level <= 0 THEN body
  ELSE replaceLeadingRuns(body, 1, FALSE, Txt(repeat("#", level)))

\* index.ts:143-145
decreaseTitleLevelsBy(self, body, level) ==
  IF ~self.decreaseTitleLevels \/ level <= 0 THEN body
  ELSE appendToLeadingRuns(body, 1, FALSE, Txt(repeat("#", level)))

\* index.ts:178-180
getDirParts(self, file) ==
  IF self.dir = dirname(file.path) THEN <<>>
  ELSE split(relative(self.dir, dirname(file.path)), sep)

\* Map.prototype.set
MapSet(m, key, v) == [x \in DOMAIN m \cup {key} |-> IF x = key THEN v ELSE m[x]]

titleSuffix == <<"\n", "\n">>

\* The directory loop of addTitle without the visitedDirs test.
RECURSIVE addDirTitles_NoVisitedTest(_, _, _)
addDirTitles_NoVisitedTest(self, parts, acc) ==
  IF parts = <<>> THEN acc
  ELSE LET part == Head(parts)
           currentDir == IF acc.currentDir # <<>>
                           THEN acc.currentDir \o <<sep>> \o part ELSE part
           level == acc.level + 1
           dirTitle == startCase(part)
           titleMd == acc.titleMd \o repeat("#", level) \o <<" ">> \o dirTitle
                      \o titleSuffix
           key == join(self.dir, currentDir)
       IN addDirTitles_NoVisitedTest(self, Tail(parts),
            [currentDir |-> currentDir, level |-> level, titleMd |-> titleMd,
             visitedDirs |-> acc.visitedDirs \cup {currentDir},
             fileTitleIndex |-> MapSet(acc.fileTitleIndex, key,
                                  [title |-> dirTitle, md |-> titleMd, level |-> level]),
             setLog |-> Append(acc.setLog, key)])

\* The directory loop of addTitle with the level raised only for a
\* directory that was not visited before.
RECURSIVE addDirTitles_LevelOnlyWhenNew(_, _, _)
addDirTitles_LevelOnlyWhenNew(self, parts, acc) ==
  IF parts = <<>> THEN acc
  ELSE LET part == Head(parts)
           currentDir == IF acc.currentDir # <<>>
                           THEN acc.currentDir \o <<sep>> \o part ELSE part
           level == acc.level + 1
           dirTitle == startCase(part)
           titleMd == acc.titleMd \o repeat("#", level) \o <<" ">> \o dirTitle
                      \o titleSuffix
           key == join(self.dir, currentDir)
       IN addDirTitles_LevelOnlyWhenNew(self, Tail(parts),
            IF currentDir \notin acc.visitedDirs
              THEN [currentDir |-> currentDir, level |-> level, titleMd |-> titleMd,
                    visitedDirs |-> acc.visitedDirs \cup {currentDir},
                    fileTitleIndex |-> MapSet(acc.fileTitleIndex, key,
                                         [title |-> dirTitle, md |-> titleMd,
                                          level |-> level]),
                    setLog |-> Append(acc.setLog, key)]
            ELSE [acc EXCEPT !.currentDir = currentDir])

\* The dirParts.forEach of addTitle (index.ts:191-201).  acc carries the
\* locals currentDir, level and titleMd, the two collections of the object,
\* and setLog: every key handed to fileTitleIndex.set, in call order.
RECURSIVE addDirTitles(_, _, _)
addDirTitles(self, parts, acc) ==
  IF parts = <<>> THEN acc
  ELSE LET part == Head(parts)
           currentDir == IF acc.currentDir # <<>>
                           THEN acc.currentDir \o <<sep>> \o part ELSE part
           level == acc.level + 1
           dirTitle == startCase(part)
           titleMd == acc.titleMd \o repeat("#", level) \o <<" ">> \o dirTitle
                      \o titleSuffix
           key == join(self.dir, currentDir)
       IN addDirTitles(self, Tail(parts),
            IF currentDir \notin acc.visitedDirs
              THEN [currentDir |-> currentDir, level |-> level, titleMd |-> titleMd,
                    visitedDirs |-> acc.visitedDirs \cup {currentDir},
                    fileTitleIndex |-> MapSet(acc.fileTitleIndex, key,
                                         [title |-> dirTitle, md |-> titleMd,
                                          level |-> level]),
                    setLog |-> Append(acc.setLog, key)]
            ELSE [acc EXCEPT !.currentDir = currentDir, !.level = level])

\* file.attributes[key], empty when the key or the attribute is missing.
attribute(file, key) ==
  IF key # "" /\ key \in DOMAIN file.attributes THEN file.attributes[key] ELSE <<>>

\* addTitle without the level += 1 for the file's own title.
addTitle_NoOwnLevel(self, st, file) ==
  LET start == [currentDir |-> <<>>, level |-> self.startTitleLevelAt - 1,
                titleMd |-> <<>>, visitedDirs |-> st.visitedDirs,
                fileTitleIndex |-> st.fileTitleIndex, setLog |-> st.setLog]
      acc == IF self.dirNameAsTitle
               THEN addDirTitles(self, getDirParts(self, file), start)
             ELSE start
      titleFromMeta == attribute(file, self.titleKey)
      titleFromFileName == startCase(basename(file.path, extname(file.path)))
      titled == titleFromMeta # <<>> \/ self.fileNameAsTitle
      fileTitle == IF titled
                     THEN (IF titleFromMeta # <<>> THEN titleFromMeta
                           ELSE titleFromFileName)
                   ELSE gitHubLink(relative(self.dir, file.path))
      level == acc.level
      titleMd == IF titled
                   THEN acc.titleMd \o repeat("#", level) \o <<" ">> \o fileTitle
                        \o titleSuffix
                 ELSE acc.titleMd \o <<"\n", "<a name=\"">> \o fileTitle
                      \o <<"\"></a>", "\n", "\n">>
  IN [visitedDirs |-> acc.visitedDirs,
      fileTitleIndex |-> MapSet(acc.fileTitleIndex, file.path,
                           [title |-> fileTitle, md |-> titleMd, level |-> level]),
      setLog |-> Append(acc.setLog, file.path)]

\* index.ts:182-218.  st holds visitedDirs, fileTitleIndex and setLog.
addTitle(self, st, file) ==
  LET start == [currentDir |-> <<>>, level |-> self.startTitleLevelAt - 1,
                titleMd |-> <<>>, visitedDirs |-> st.visitedDirs,
                fileTitleIndex |-> st.fileTitleIndex, setLog |-> st.setLog]
      acc == IF self.dirNameAsTitle
               THEN addDirTitles(self, getDirParts(self, file), start)
             ELSE start
      titleFromMeta == attribute(file, self.titleKey)
      titleFromFileName == startCase(basename(file.path, extname(file.path)))
      titled == titleFromMeta # <<>> \/ self.fileNameAsTitle
      fileTitle == IF titled
                     THEN (IF titleFromMeta # <<>> THEN titleFromMeta
                           ELSE titleFromFileName)
                   ELSE gitHubLink(relative(self.dir, file.path))
      level == IF titled THEN acc.level + 1 ELSE acc.level
      titleMd == IF titled
                   THEN acc.titleMd \o repeat("#", level) \o <<" ">> \o fileTitle
                        \o titleSuffix
                 ELSE acc.titleMd \o <<"\n", "<a name=\"">> \o fileTitle
                      \o <<"\"></a>", "\n", "\n">>
  IN [visitedDirs |-> acc.visitedDirs,
      fileTitleIndex |-> MapSet(acc.fileTitleIndex, file.path,
                           [title |-> fileTitle, md |-> titleMd, level |-> level]),
      setLog |-> Append(acc.setLog, file.path)]

\* index.ts:220-227: ok is FALSE where the code throws.
getTitle(fileTitleIndex, filePath) ==
  IF filePath \in DOMAIN fileTitleIndex
    THEN [ok |-> TRUE, value |-> fileTitleIndex[filePath]]
  ELSE [ok |-> FALSE, value |-> [title |-> <<>>, md |-> <<>>, level |-> 0]]

\* ------------------------------------------------------------------------
\* doctoc's transform, as far as addGlobalTitleAndToc depends on it: it
\* reports a change when the content has a heading no deeper than maxLevel,
\* and then puts the generated list between the marker lines.
\* ------------------------------------------------------------------------
TOC_START == "<!-- START doctoc -->"
TOC_END == "<!-- END doctoc -->"
\* index.ts:237
TOC_TAG == <<Ch(TOC_START), Ch("\n"), Ch(TOC_END)>>

\* Lengths of the "#" runs that start a line of content.
headingLevels(content) ==
  {m \in 1..Len(content) :
     \E n \in 1..(Len(content) - m + 1) :
       /\ n = 1 \/ IsLineTerminator(content[n - 1])
       /\ \A q \in n..(n + m - 1) : content[q] = Ch("#")
       /\ n + m > Len(content) \/ content[n + m] # Ch("#")}

\* 0-based offsets at which the marker block occurs in content.
tagOffsets(content) ==
  {n \in 0..(Len(content) - 3) : SubSeq(content, n + 1, n + 3) = TOC_TAG}

transform(content, maxLevel) ==
  LET changed == \E m \in headingLevels(content) : m <= maxLevel
      offs == tagOffsets(content)
  IN [transformed |-> changed,
      data |-> IF changed /\ offs # {}
                 THEN LET at == CHOOSE n \in offs : \A m \in offs : n <= m
                      IN SubSeq(content, 1, at + 2) \o <<Ch("<toc>"), Ch("\n")>>
                         \o SubSeq(content, at + 3, Len(content))
               ELSE content]

\* addGlobalTitleAndToc with the title heading put after the marker block.
addGlobalTitleAndToc_TitleAfterTag(self, content) ==
  IF ~self.toc
    THEN [result |-> IF self.title # <<>>
                       THEN Txt(<<"#", " ">> \o self.title \o <<"\n">>) \o content
                     ELSE content,
          tocCalled |-> FALSE, tocInput |-> <<>>, transformed |-> FALSE]
  ELSE LET r1 == IF self.title # <<>>
                   THEN Txt(<<"#", " ">> \o self.title \o <<"\n", "\n">>) \o content
                 ELSE content
           r2 == IF ~includes(r1, TOC_TAG)
                   THEN TOC_TAG \o Txt(<<"\n", "\n">>) \o r1 ELSE r1
           docTocResult == transform(r2, self.tocLevel)
       IN [result |-> IF docTocResult.transformed THEN docTocResult.data ELSE r2,
           tocCalled |-> TRUE, tocInput |-> r2,
           transformed |-> docTocResult.transformed]

\* index.ts:229-251.  Besides the returned result: whether transform was
\* called, the text handed to it, and whether it reported a change.
addGlobalTitleAndToc(self, content) ==
  IF ~self.toc
    THEN [result |-> IF self.title # <<>>
                       THEN Txt(<<"#", " ">> \o self.title \o <<"\n">>) \o content
                     ELSE content,
          tocCalled |-> FALSE, tocInput |-> <<>>, transformed |-> FALSE]
  ELSE LET r1 == IF ~includes(content, TOC_TAG)
                   THEN TOC_TAG \o Txt(<<"\n", "\n">>) \o content ELSE content
           r2 == IF self.title # <<>>
                   THEN Txt(<<"#", " ">> \o self.title \o <<"\n", "\n">>) \o r1
                 ELSE r1
           docTocResult == transform(r2, self.tocLevel)
       IN [result |-> IF docTocResult.transformed THEN docTocResult.data ELSE r2,
           tocCalled |-> TRUE, tocInput |-> r2,
           transformed |-> docTocResult.transformed]

\* ------------------------------------------------------------------------
\* Link rewriting.
\* ------------------------------------------------------------------------
http == <<"h", "t", "t", "p">>

\* The callback without its test for external links.
linkCallback_NoHttpTest(self, fileTitleIndex, file, link) ==
  LET absoluteTargetPath == join(dirname(file.path), link)
      hashPosition == indexOf(absoluteTargetPath, "#")
      hash == IF hashPosition > -1 THEN Slice(absoluteTargetPath, hashPosition)
              ELSE <<>>
      targetFile == IF hashPosition > -1 THEN SliceTo(absoluteTargetPath, hashPosition)
                    ELSE absoluteTargetPath
      got == getTitle(fileTitleIndex, targetFile)
  IN IF hash # <<>> THEN hash
     ELSE IF got.ok THEN <<"#">> \o gitHubLink(got.value.title)
     ELSE <<>>

\* The callback modifyLinks hands to transformLinks (index.ts:254-275): the
\* new target of one link of file.
linkCallback(self, fileTitleIndex, file, link) ==
  IF startsWith(link, http) THEN link
  ELSE LET absoluteTargetPath == join(dirname(file.path), link)
           hashPosition == indexOf(absoluteTargetPath, "#")
           hash == IF hashPosition > -1 THEN Slice(absoluteTargetPath, hashPosition)
                   ELSE <<>>
           targetFile == IF hashPosition > -1
                           THEN SliceTo(absoluteTargetPath, hashPosition)
                         ELSE absoluteTargetPath
           got == getTitle(fileTitleIndex, targetFile)
       IN IF hash # <<>> THEN hash
          ELSE IF got.ok THEN <<"#">> \o gitHubLink(got.value.title)
          ELSE <<>>

\* index.ts:253-278: transformLinks replaces the target of every link of the
\* body by what the callback returns for it.
modifyLinks(self, fileTitleIndex, file) ==
  [n \in DOMAIN file.body |->
     IF file.body[n].k = "link"
       THEN Lk(linkCallback(self, fileTitleIndex, file, file.body[n].t))
     ELSE file.body[n]]

\* ------------------------------------------------------------------------
\* The inputs of a run: the root directory, the options and the documents
\* that file discovery and front-matter extraction hand to concatFiles.
\* The command line resolves the root, so it is absolute and normalized.
\* ------------------------------------------------------------------------
rootDir == <<"/", "r">>

\* /r/a.md: a heading, a link to a file in a subdirectory, an external link,
\* a link to a file that is not there.
DocA ==
  [path |-> <<"/","r","/","a",".","m","d">>,
   attributes |-> [title |-> <<>>],
   body |-> <<Ch("#"), Ch(" "), Ch("A"), Ch("\n"),
              Lk(<<"s","/","b",".","m","d">>), Ch(" "),
              Lk(<<"h","t","t","p",":","/","/","x">>), Ch(" "),
              Lk(<<"z","z",".","m","d">>), Ch("\n")>>]

\* /r/s/b.md: front matter title "T b"; a link up to a.md, a link into
\* a.md's section x, a link into its own section y, a fragment with an
\* empty path segment, a "#" inside a line.
DocB ==
  [path |-> <<"/","r","/","s","/","b",".","m","d">>,
   attributes |-> [title |-> <<"T"," ","b">>],
   body |-> <<Lk(<<".",".","/","a",".","m","d">>), Ch("\n"),
              Ch("#"), Ch("#"), Ch(" "), Ch("y"), Ch("#"), Ch("\n"),
              Lk(<<".",".","/","a",".","m","d","#","x">>), Ch(" "),
              Lk(<<"#","y">>), Ch(" "), Lk(<<"#","p","/","/","q">>), Ch("\n")>>]

\* /r/s/t/c.md: no heading, its own TOC marker block, a link to the
\* directory above, a link to b.md, an external-looking relative link.
DocC ==
  [path |-> <<"/","r","/","s","/","t","/","c",".","m","d">>,
   attributes |-> [title |-> <<>>],
   body |-> <<Ch("x"), Ch("\n")>> \o TOC_TAG \o
            <<Ch("\n"), Lk(<<".",".">>), Ch(" "),
              Lk(<<".",".","/","b",".","m","d">>), Ch(" "),
              Lk(<<"h","t","t","p","d",".","m","d">>), Ch("\n")>>]

\* /r/c#/d.md, in a directory whose name holds a "#"; no heading and no
\* marker block; links to its own directory, to a file that is not there,
\* to its own section x, to a.md.
DocD ==
  [path |-> <<"/","r","/","c","#","/","d",".","m","d">>,
   attributes |-> [title |-> <<>>],
   body |-> <<Lk(<<".">>), Ch(" "), Lk(<<"z","z">>), Ch(" "),
              Lk(<<"#","x">>), Ch(" "),
              Lk(<<".",".","/","a",".","m","d">>), Ch(" "),
              Lk(<<"d",".","m","d">>), Ch("\n")>>]

Docs == {DocA, DocB, DocC, DocD}

\* File lists of at most MaxFiles documents with distinct paths.
FileLists ==
  UNION {{fs \in [1..n -> Docs] :
            \A p, q \in 1..n : p # q => fs[p].path # fs[q].path} : n \in 0..MaxFiles}

\* index.ts:118
DefaultTocLevel == 3

\* The ConcatOptions of a run.  joinStringGiven tells an option that was not
\* provided from one provided as the empty string.
Options ==
  {o \in
  [title : {<<>>, <<"T">>},
   toc : BOOLEAN,
   tocLevel : {DefaultTocLevel},
   decreaseTitleLevels : BOOLEAN,
   startTitleLevelAt : {1, 2},
   joinStringGiven : BOOLEAN,
   joinString : {<<>>, <<"-">>},
   titleKey : {"", "title"},
   fileNameAsTitle : BOOLEAN,
   dirNameAsTitle : BOOLEAN] : o.joinStringGiven \/ o.joinString = <<>>}

\* Bodies the heading level rewriter is enumerated on.
\* "~~~" is a code fence line's marker, an atomic symbol.
ShiftSymbols == {Ch("#"), Ch("\n"), Ch("x"), Ch(" "), Ch("~~~")}
ShiftBodies == UNION {[1..n -> ShiftSymbols] : n \in 0..MaxBodyLen}

\* ------------------------------------------------------------------------
\* State.
\* ------------------------------------------------------------------------
VARIABLES
  opts,            \* the ConcatOptions of the run
  input,           \* the file list as handed to concatFiles
  files,           \* the same list, bodies rewritten in place
  pc,              \* where concatFiles is: pass1, pass2, join, done
  idx,             \* index of the next file of the running forEach
  visitedDirs,     \* this.visitedDirs
  fileTitleIndex,  \* this.fileTitleIndex
  setLog,          \* every key handed to fileTitleIndex.set, in call order
  titled,          \* indexes of the files addTitle was called on, in order
  rewritten,       \* indexes of the files modifyLinks was called on, in order
  joined,          \* the joined bodies (local result of concatFiles)
  wrap,            \* what addGlobalTitleAndToc did
  shift            \* a heading level rewriter experiment

vars == <<opts, input, files, pc, idx, visitedDirs, fileTitleIndex, setLog,
          titled, rewritten, joined, wrap, shift>>

this == constructor(rootDir, opts)

NoWrap == [result |-> <<>>, tocCalled |-> FALSE, tocInput |-> <<>>,
           transformed |-> FALSE]
NoShift == [stage |-> "off", body |-> <<>>, a |-> 0, b |-> 0,
            once |-> <<>>, twice |-> <<>>, sum |-> <<>>]

\* A fresh MarkDownConcatenator (index.ts:109-110) about to run concatFiles.
Init ==
  /\ opts \in Options
  /\ input \in FileLists
  /\ files = input
  /\ pc = "pass1"
  /\ idx = 1
  /\ visitedDirs = {}
  /\ fileTitleIndex = <<>>
  /\ setLog = <<>>
  /\ titled = <<>>
  /\ rewritten = <<>>
  /\ joined = <<>>
  /\ wrap = NoWrap
  /\ shift = NoShift

\* The first forEach has run out of files after the first one.
FirstLoopDone_AfterOne == idx > 1 \/ idx > Len(files)

\* The first forEach of concatFiles has visited every file.
FirstLoopDone == idx > Len(files)

\* One iteration of the first forEach (index.ts:281-286).
TitlePass ==
  /\ pc = "pass1"
  /\ ~FirstLoopDone
  /\ LET file == files[idx]
         st == addTitle(this, [visitedDirs |-> visitedDirs,
                               fileTitleIndex |-> fileTitleIndex,
                               setLog |-> setLog], file)
         got == getTitle(st.fileTitleIndex, file.path)
         body == decreaseTitleLevelsBy(this, file.body, got.value.level)
     IN /\ visitedDirs' = st.visitedDirs
        /\ fileTitleIndex' = st.fileTitleIndex
        /\ setLog' = st.setLog
        /\ titled' = Append(titled, idx)
        /\ IF got.ok
             THEN /\ files' = [files EXCEPT ![idx].body = Txt(got.value.md) \o body]
                  /\ idx' = idx + 1
                  /\ pc' = pc
           ELSE /\ pc' = "error"
                /\ UNCHANGED <<files, idx>>
  /\ UNCHANGED <<opts, input, rewritten, joined, wrap, shift>>

\* The first forEach ends and the second starts (index.ts:286-289).
TitlePassEnd ==
  /\ pc = "pass1"
  /\ FirstLoopDone
  /\ pc' = "pass2"
  /\ idx' = 1
  /\ UNCHANGED <<opts, input, files, visitedDirs, fileTitleIndex, setLog,
                 titled, rewritten, joined, wrap, shift>>

\* One iteration of the second forEach (index.ts:289-291).
LinkPass ==
  /\ pc = "pass2"
  /\ idx <= Len(files)
  /\ files' = [files EXCEPT ![idx].body = modifyLinks(this, fileTitleIndex, files[idx])]
  /\ rewritten' = Append(rewritten, idx)
  /\ idx' = idx + 1
  /\ UNCHANGED <<opts, input, pc, visitedDirs, fileTitleIndex, setLog, titled,
                 joined, wrap, shift>>

\* files.map(file => file.body).join(this.joinString) and the wrapper
\* (index.ts:293-294).
JoinAndWrap ==
  /\ pc = "pass2"
  /\ idx > Len(files)
  /\ LET result == ArrayJoin([n \in DOMAIN files |-> files[n].body],
                             Txt(this.joinString))
     IN /\ joined' = result
        /\ wrap' = addGlobalTitleAndToc(this, result)
  /\ pc' = "done"
  /\ UNCHANGED <<opts, input, files, idx, visitedDirs, fileTitleIndex, setLog,
                 titled, rewritten, shift>>

Next == TitlePass \/ TitlePassEnd \/ LinkPass \/ JoinAndWrap

Spec == Init /\ [][Next]_vars

\* ------------------------------------------------------------------------
\* The heading level rewriter on its own: decreaseTitleLevelsBy applied to
\* an enumerated body with shift a, then to the outcome with shift b, and
\* to the body with shift a + b.
\* ------------------------------------------------------------------------
DefaultOptions ==
  [title |-> <<>>, toc |-> FALSE, tocLevel |-> DefaultTocLevel,
   decreaseTitleLevels |-> FALSE, startTitleLevelAt |-> 1,
   joinStringGiven |-> FALSE, joinString |-> <<>>, titleKey |-> "",
   fileNameAsTitle |-> FALSE, dirNameAsTitle |-> FALSE]

InitShift ==
  /\ opts \in {[DefaultOptions EXCEPT !.decreaseTitleLevels = d] : d \in BOOLEAN}
  /\ input = <<>>
  /\ files = <<>>
  /\ pc = "idle"
  /\ idx = 1
  /\ visitedDirs = {}
  /\ fileTitleIndex = <<>>
  /\ setLog = <<>>
  /\ titled = <<>>
  /\ rewritten = <<>>
  /\ joined = <<>>
  /\ wrap = NoWrap
  /\ shift \in [stage : {"in"}, body : ShiftBodies, a : 0..MaxShift,
                b : 0..MaxShift, once : {<<>>}, twice : {<<>>}, sum : {<<>>}]

RewriteOnce ==
  /\ shift.stage = "in"
  /\ shift' = [shift EXCEPT !.stage = "once",
                            !.once = decreaseTitleLevelsBy(this, shift.body, shift.a)]
  /\ UNCHANGED <<opts, input, files, pc, idx, visitedDirs, fileTitleIndex,
                 setLog, titled, rewritten, joined, wrap>>

RewriteAgain ==
  /\ shift.stage = "once"
  /\ shift' = [shift EXCEPT
                 !.stage = "twice",
                 !.twice = decreaseTitleLevelsBy(this, shift.once, shift.b),
                 !.sum = decreaseTitleLevelsBy(this, shift.body, shift.a + shift.b)]
  /\ UNCHANGED <<opts, input, files, pc, idx, visitedDirs, fileTitleIndex,
                 setLog, titled, rewritten, joined, wrap>>

NextShift == RewriteOnce \/ RewriteAgain

SpecShift == InitShift /\ [][NextShift]_vars

\* ========================================================================
\* Properties.
\* ========================================================================
\* The files pass 2 has rewritten, as (index, link number) pairs with the
\* link target before and after.
RewrittenLinks ==
  {<<k, n>> \in (1..Len(files)) \X (1..10) :
     /\ \E q \in DOMAIN rewritten : rewritten[q] = k
     /\ n <= Len(LinksOf(input[k].body))}
OldTarget(kn) == LinksOf(input[kn[1]].body)[kn[2]]
NewTarget(kn) == LinksOf(files[kn[1]].body)[kn[2]]
\* The link resolved against the directory of the file it is in.
Resolved(kn) == join(dirname(input[kn[1]].path), OldTarget(kn))
IsExternal(link) == startsWith(link, http)
HasFragment(link) == indexOf(link, "#") # -1

\* C1: no file's link rewriting starts before title assignment has recorded
\* a TitleEntry for every file of the list, later files included, and both
\* passes visit the files in list order.
C1_TitlesBeforeLinks ==
  /\ titled = [k \in 1..Len(titled) |-> k]
  /\ rewritten = [k \in 1..Len(rewritten) |-> k]
  /\ rewritten # <<>> =>
       /\ Len(titled) = Len(files)
       /\ \A k \in DOMAIN files : files[k].path \in DOMAIN fileTitleIndex

\* The first file of a two-file list has had its links rewritten, the
\* second not yet.
C1_Witness ==
  /\ Len(files) = 2
  /\ rewritten = <<1>>
  /\ files[2].path \in DOMAIN fileTitleIndex

\* C2 as claimed: every rewritten non-http link without a fragment whose
\* resolved target is a key of the Title Index becomes "#" followed by the
\* slug of that entry's title.
C2_ResolvedLinkIsSlug ==
  \A kn \in RewrittenLinks :
    ( /\ ~IsExternal(OldTarget(kn))
      /\ ~HasFragment(OldTarget(kn))
      /\ Resolved(kn) \in DOMAIN fileTitleIndex )
    => NewTarget(kn) = <<"#">> \o gitHubLink(fileTitleIndex[Resolved(kn)].title)

\* C3 as claimed: every rewritten non-http link without a fragment whose
\* resolved target is no key of the Title Index becomes the empty target,
\* and the run does not fail.
C3_BrokenLinkIsEmpty ==
  /\ pc # "error"
  /\ \A kn \in RewrittenLinks :
       ( /\ ~IsExternal(OldTarget(kn))
         /\ ~HasFragment(OldTarget(kn))
         /\ Resolved(kn) \notin DOMAIN fileTitleIndex )
       => NewTarget(kn) = <<>>

\* C4 as claimed: every rewritten non-http link with a fragment becomes that
\* fragment, from its "#" on, exactly as written.
C4_FragmentKept ==
  \A kn \in RewrittenLinks :
    (~IsExternal(OldTarget(kn)) /\ HasFragment(OldTarget(kn)))
    => NewTarget(kn) = Slice(OldTarget(kn), indexOf(OldTarget(kn), "#"))

\* C5: the target of every link that starts with "http" is the same after
\* pass 2 as before it.
C5_HttpUntouched ==
  \A kn \in RewrittenLinks :
    IsExternal(OldTarget(kn)) => NewTarget(kn) = OldTarget(kn)

\* Pass 2 has rewritten a file with an external link while the Title Index
\* holds entries.
C5_Witness ==
  /\ DOMAIN fileTitleIndex # {}
  /\ \E kn \in RewrittenLinks :
       IsExternal(OldTarget(kn)) /\ NewTarget(kn) = <<"h","t","t","p",":","/","/","x">>

\* The directories strictly between the root and a path, as absolute paths.
AncestorDirsOf(path) ==
  {SubSeq(path, 1, n - 1) : n \in {m \in DOMAIN path :
                                     path[m] = sep /\ m - 1 > Len(rootDir)}}
\* The files title assignment has processed so far.
Processed == {input[titled[q]] : q \in DOMAIN titled}
DistinctAncestorDirs == UNION {AncestorDirsOf(f.path) : f \in Processed}

\* C6: the Title Index holds one entry per processed file plus, with
\* dirNameAsTitle, one per distinct ancestor directory of those files, and
\* no key was ever set twice.
C6_IndexSize ==
  /\ Cardinality(DOMAIN fileTitleIndex) =
       Cardinality(Processed)
       + (IF opts.dirNameAsTitle THEN Cardinality(DistinctAncestorDirs) ELSE 0)
  /\ \A p, q \in DOMAIN setLog : p # q => setLog[p] # setLog[q]
  /\ {setLog[q] : q \in DOMAIN setLog} = DOMAIN fileTitleIndex

\* Pass 1 is over for two files that share an ancestor directory, with
\* directory titles on.
C6_Witness ==
  /\ pc = "pass2"
  /\ opts.dirNameAsTitle
  /\ Len(files) = 2
  /\ AncestorDirsOf(files[1].path) \cap AncestorDirsOf(files[2].path) # {}

\* C7: the heading level rewriter returns the body unchanged whenever the
\* shift is zero or decreaseTitleLevels is off, whatever the body.
C7_ShiftIdentity ==
  (shift.stage \in {"once", "twice"} /\ (shift.a = 0 \/ ~opts.decreaseTitleLevels))
  => shift.once = shift.body

\* decreaseTitleLevels is off, the level is positive, the body starts with a
\* heading, and the rewriter has run.
C7_Witness ==
  /\ shift.stage = "once"
  /\ ~opts.decreaseTitleLevels
  /\ shift.a > 0
  /\ shift.body # <<>> /\ shift.body[1] = Ch("#")
  /\ shift.once = shift.body

\* A line with n "#" put directly after its leading run of "#", if it has one.
ShiftedLine(line, n) ==
  LET runs == {r \in 0..Len(line) : \A q \in 1..r : line[q] = Ch("#")}
      r == CHOOSE x \in runs : \A y \in runs : y <= x
  IN IF r = 0 THEN line
     ELSE SubSeq(line, 1, r) \o Txt(repeat("#", n)) \o SubSeq(line, r + 1, Len(line))
\* Every line of body shifted by n.
ShiftedLines(body, n) ==
  LET lines == split(body, Ch("\n"))
  IN ArrayJoin([q \in DOMAIN lines |-> ShiftedLine(lines[q], n)], <<Ch("\n")>>)

\* C8: with decreaseTitleLevels on, shifting by a and then by b gives what
\* shifting by a + b gives: every heading line has a + b more "#" directly
\* after its leading run and is otherwise as it was.
C8_ShiftAdditive ==
  (shift.stage = "twice" /\ opts.decreaseTitleLevels)
  => /\ shift.twice = shift.sum
     /\ shift.sum = ShiftedLines(shift.body, shift.a + shift.b)

\* Both shifts are positive and a heading on the second line was moved.
C8_Witness ==
  /\ shift.stage = "twice"
  /\ opts.decreaseTitleLevels
  /\ shift.a > 0 /\ shift.b > 0
  /\ Len(shift.body) >= 3
  /\ shift.body[2] = Ch("\n") /\ shift.body[3] = Ch("#")
  /\ shift.twice # shift.body

RECURSIVE BodiesWithSeparator(_, _, _)
\* bodies[n..], the separator put before each but the first.
BodiesWithSeparator(bodies, n, separator) ==
  IF n > Len(bodies) THEN <<>>
  ELSE (IF n > 1 THEN separator ELSE <<>>) \o bodies[n]
       \o BodiesWithSeparator(bodies, n + 1, separator)

\* C9 as claimed: the joined content is the bodies in list order with the
\* separator between neighbours: one newline when no joinString was
\* provided, and newline + s + newline for every provided string s.
C9_JoinSeparator ==
  pc = "done" =>
    joined = BodiesWithSeparator(
               [n \in DOMAIN files |-> files[n].body], 1,
               IF opts.joinStringGiven
                 THEN Txt(<<"\n">> \o opts.joinString \o <<"\n">>)
               ELSE Txt(<<"\n">>))

TitleLine == Txt(<<"#", " ">> \o opts.title \o <<"\n", "\n">>)
\* The text handed to the TOC transform, the title line taken off.
TocInputBelowTitle ==
  IF opts.title # <<>> THEN Slice(wrap.tocInput, Len(TitleLine)) ELSE wrap.tocInput

\* What C10 says of every case but "toc and no title".
C10_Rest ==
  /\ (~opts.toc /\ opts.title = <<>>) =>
       ~wrap.tocCalled /\ wrap.result = joined
  /\ (opts.toc /\ opts.title # <<>>) =>
       /\ wrap.tocCalled
       /\ startsWith(wrap.tocInput, TitleLine)
       /\ includes(TocInputBelowTitle, TOC_TAG)
  /\ (opts.toc /\ ~wrap.transformed) =>
       /\ wrap.result = wrap.tocInput
       /\ includes(wrap.result, TOC_TAG)

\* C10 as claimed: with toc and no title the text handed to the TOC
\* transform starts with the marker block, for every joined content.
C10_MarkersFirst ==
  pc = "done" =>
    /\ C10_Rest
    /\ (opts.toc /\ opts.title = <<>>) =>
         wrap.tocCalled /\ startsWith(wrap.tocInput, TOC_TAG)

\* C10 amended: with toc and no title the text handed to the TOC transform
\* is the joined content itself when that already holds the marker block,
\* and otherwise the marker block, a blank line and the joined content; no
\* title line is put before it.  The other cases are as claimed.
C10_MarkersFirstOrKept ==
  pc = "done" =>
    /\ C10_Rest
    /\ (opts.toc /\ opts.title = <<>>) =>
         /\ wrap.tocCalled
         /\ \/ includes(joined, TOC_TAG) /\ wrap.tocInput = joined
            \/ /\ ~includes(joined, TOC_TAG)
               /\ wrap.tocInput = TOC_TAG \o Txt(<<"\n", "\n">>) \o joined

\* toc without a title over content that brings its own marker block, which
\* therefore is not at the start of what the transform gets.
C10_Witness ==
  /\ pc = "done"
  /\ opts.toc /\ opts.title = <<>>
  /\ includes(joined, TOC_TAG)
  /\ wrap.tocCalled
  /\ ~startsWith(wrap.tocInput, TOC_TAG)

\* The positions of the input list that title assignment has processed.
ProcessedIndexes == {titled[q] : q \in DOMAIN titled}
\* The ancestor directories of file k, and those no earlier file has.
DirsOfFile(k) == AncestorDirsOf(input[k].path)
NewDirsOfFile(k) ==
  DirsOfFile(k) \ UNION {AncestorDirsOf(input[j].path) : j \in 1..(k - 1)}
\* Whether file f gets a title of its own: from front matter or its name.
GetsTitle(f) == attribute(f, opts.titleKey) # <<>> \/ opts.fileNameAsTitle
OwnTitleLevels(f) == IF GetsTitle(f) THEN 1 ELSE 0
\* The number of lines of a string that start with "#".
HeadingLineCount(md) ==
  Cardinality({n \in DOMAIN md : md[n] = "#" /\ (n = 1 \/ md[n - 1] = "\n")})
\* Directories get no second heading and no second TitleEntry: the prefix
\* of file k has one heading per directory that is new with it (and one for
\* the file's own title), and no key was set twice.
NoSecondDirHeading ==
  /\ \A k \in ProcessedIndexes :
       HeadingLineCount(fileTitleIndex[input[k].path].md)
         = Cardinality(NewDirsOfFile(k)) + OwnTitleLevels(input[k])
  /\ \A p, q \in DOMAIN setLog : p # q => setLog[p] # setLog[q]

\* C11 as claimed: with dirNameAsTitle, a directory visited by an earlier
\* file does not raise the running level, so a file's level counts only
\* the directories that are new with it; a visited directory gets no second
\* heading and no second TitleEntry.
C11_LevelCountsNewDirs ==
  opts.dirNameAsTitle =>
    /\ NoSecondDirHeading
    /\ \A k \in ProcessedIndexes :
         fileTitleIndex[input[k].path].level
           = opts.startTitleLevelAt - 1 + Cardinality(NewDirsOfFile(k))
             + OwnTitleLevels(input[k])

\* C11 amended: with dirNameAsTitle, every directory component of a file
\* raises the running level by one, visited before or not, so a file's
\* level counts all its ancestor directories below the root; a visited
\* directory gets no second heading and no second TitleEntry.
C11_LevelCountsAllDirs ==
  opts.dirNameAsTitle =>
    /\ NoSecondDirHeading
    /\ \A k \in ProcessedIndexes :
         fileTitleIndex[input[k].path].level
           = opts.startTitleLevelAt - 1 + Cardinality(DirsOfFile(k))
             + OwnTitleLevels(input[k])

\* The second of two files lies in a directory the first one already
\* visited, and its level counts that directory.
C11_Witness ==
  /\ opts.dirNameAsTitle
  /\ titled = <<1, 2>>
  /\ DirsOfFile(2) \cap DirsOfFile(1) # {}
  /\ fileTitleIndex[input[2].path].level
       > opts.startTitleLevelAt - 1 + Cardinality(NewDirsOfFile(2))
         + OwnTitleLevels(input[2])

\* Whether key is the path of a processed file that gets no title of its own.
IsUntitledFileKey(key) ==
  \E k \in ProcessedIndexes : input[k].path = key /\ ~GetsTitle(input[k])

\* C13 as claimed: every TitleEntry recorded in the Title Index, of a
\* directory or of a file, has a level of at least 1.
C13_LevelPositive ==
  \A key \in DOMAIN fileTitleIndex : fileTitleIndex[key].level >= 1

\* C13 amended: every TitleEntry of a directory or of a file that gets a
\* title has a level of at least startTitleLevelAt, hence at least 1; the
\* entry of a file without a title has the level of the heading above it,
\* at least startTitleLevelAt - 1, which may be 0.
C13_LevelAtLeastStart ==
  \A key \in DOMAIN fileTitleIndex :
    IF IsUntitledFileKey(key)
      THEN /\ fileTitleIndex[key].level >= opts.startTitleLevelAt - 1
           /\ fileTitleIndex[key].level >= 0
    ELSE /\ fileTitleIndex[key].level >= opts.startTitleLevelAt
         /\ fileTitleIndex[key].level >= 1

\* A file without a title and without a titled directory above it was
\* recorded with level 0, next to an entry with a positive level.
C13_Witness ==
  /\ \E key \in DOMAIN fileTitleIndex :
       IsUntitledFileKey(key) /\ fileTitleIndex[key].level = 0
  /\ \E key \in DOMAIN fileTitleIndex : fileTitleIndex[key].level >= 1

\* A line that opens or closes a code fence.
IsFenceLine(line) == line # <<>> /\ line[1] = Ch("~~~")
\* Whether line q lies inside a code fence: an odd number of fence lines
\* comes before it.
InCodeFence(lines, q) ==
  Cardinality({j \in 1..(q - 1) : IsFenceLine(lines[j])}) % 2 = 1
\* The length of the run of "#" a line starts with.
LeadingRun(line) ==
  LET runs == {r \in 0..Len(line) : \A j \in 1..r : line[j] = Ch("#")}
  IN CHOOSE x \in runs : \A y \in runs : y <= x
\* A markdown (ATX) heading at the start of a line: outside code fences,
\* one to six "#", then a space or the end of the line.
IsHeadingLine(lines, q) ==
  LET line == lines[q]
      r == LeadingRun(line)
  IN /\ ~IsFenceLine(line)
     /\ ~InCodeFence(lines, q)
     /\ r \in 1..6
     /\ (Len(line) = r \/ line[r + 1] = Ch(" "))

\* C12 as claimed: with decreaseTitleLevels on and a positive shift, the
\* rewriter changes nothing but the leading markers of heading lines: a
\* line that is no markdown heading, a line inside a code fence included,
\* comes back as it was, and a heading line only gets the shift appended to
\* its leading run.
C12_OnlyHeadingLines ==
  (shift.stage \in {"once", "twice"} /\ opts.decreaseTitleLevels /\ shift.a > 0)
  => LET before == split(shift.body, Ch("\n"))
         after == split(shift.once, Ch("\n"))
     IN /\ Len(after) = Len(before)
        /\ \A q \in DOMAIN before :
             after[q] # before[q] =>
               /\ IsHeadingLine(before, q)
               /\ after[q] = ShiftedLine(before[q], shift.a)

\* ------------------------------------------------------------------------
\* C14: the anchor of an untitled file and the links to it.
\* ------------------------------------------------------------------------
\* The name of the HTML anchor in a title prefix (index.ts:213), or the
\* empty string where the prefix holds no anchor.
AnchorName(md) ==
  LET opens == {n \in DOMAIN md : md[n] = "<a name=\""}
      closes == {n \in DOMAIN md : md[n] = "\"></a>"}
  IN IF opens = {} \/ closes = {} THEN <<>>
     ELSE LET from == CHOOSE n \in opens : \A m \in opens : n <= m
              to == CHOOSE n \in closes : \A m \in closes : n <= m
          IN SubSeq(md, from + 1, to - 1)

\* C14: for a file that gets no title, every rewritten non-http link
\* without a fragment that resolves to the file becomes "#" followed by the
\* very name of the HTML anchor emitted in the file's prefix.
C14_AnchorMatchesLink ==
  \A kn \in RewrittenLinks :
    ( /\ ~IsExternal(OldTarget(kn))
      /\ ~HasFragment(OldTarget(kn))
      /\ IsUntitledFileKey(Resolved(kn)) )
    => NewTarget(kn) = <<"#">> \o AnchorName(fileTitleIndex[Resolved(kn)].md)

====
